---- MODULE Spec2Model ----
(***************************************************************************)
(* A model of artisan-runner (src/artisan_runner.go): the numeric          *)
(* selection parser, the preference store (one JSON file), the interactive *)
(* picker's pre-selection and translation, and the sequential executor,    *)
(* driven by main's selection-source switch.                               *)
(*                                                                         *)
(* Strings are sequences of one-character strings. A Go []int is a         *)
(* sequence of integers; a nil slice and an empty slice are both <<>>      *)
(* (the program only ever takes len() of them).                            *)
(***************************************************************************)
EXTENDS Integers, Sequences, FiniteSets, TLC

VARIABLES
    numbers,        \* the --numbers flag (string)
    useLast,        \* the --use-last flag
    noSave,         \* the --no-save flag
    max,            \* parseNumbers' second argument
    parsed,         \* what parseNumbers returned, or NoResult
    file,           \* the preference file at cfgPath
    loaded,         \* what loadLastSelections returned, or NoResult
    saved,          \* history: the list handed to the last save that succeeded
    saveResult,     \* what the last saveLastSelections call returned: "none", "nil", "error"
    saves,          \* history: the number of saveLastSelections calls
    promptDefault,  \* prompt.Default of the survey.MultiSelect
    picks,          \* the labels survey.AskOne returned
    pickerShown,    \* history: survey.AskOne was called in this run
    selectedIdxs,   \* main's selectedIdxs
    pc,             \* main's position
    i,              \* position of the executor's loop in selectedIdxs
    attempted,      \* history: the indices whose command was launched, in order
    console         \* the lines main printed, in order

vars == <<numbers, useLast, noSave, max, parsed, file, loaded, saved, saveResult, saves,
          promptDefault, picks, pickerShown, selectedIdxs, pc, i, attempted, console>>

(***************************************************************************)
(* Bounds of the model.                                                    *)
(***************************************************************************)
\* longest --numbers string the parser is checked on
MaxLen == 5
\* longest list handed to saveLastSelections when the store is checked on its own
MaxListLen == 2
\* most saveLastSelections calls when the store is checked on its own
MaxSaves == 3

(***************************************************************************)
(* The catalog.                                                            *)
(***************************************************************************)
\* len(tasks)
NumTasks == 4

RunAllLabel == "[Run ALL]"

tasks == << [Label |-> "php artisan optimize:clear"],
            [Label |-> "php artisan config:clear"],
            [Label |-> "php artisan route:clear"],
            [Label |-> "php artisan cache:clear"] >>

(***************************************************************************)
(* Characters and strings.                                                 *)
(***************************************************************************)
Digits == {"0", "1", "2", "3", "4", "5", "6", "7", "8", "9"}

DigitVal == [c \in Digits |->
    CASE c = "0" -> 0 [] c = "1" -> 1 [] c = "2" -> 2 [] c = "3" -> 3
      [] c = "4" -> 4 [] c = "5" -> 5 [] c = "6" -> 6 [] c = "7" -> 7
      [] c = "8" -> 8 [] c = "9" -> 9]

DigitChar == <<"1", "2", "3", "4", "5", "6", "7", "8", "9">>

\* the characters the parser's inputs are built from
\* ("-" alone, or inside a token, is what makes a token non-numeric; "-1" and
\* "12" are numeric and out of range, "00" and "-0" are 0 but not the token "0")
Alphabet == {"0", "1", "2", ",", " ", "-"}

StringsUpTo(n) == UNION {[1..k -> Alphabet] : k \in 0..n}

NoResult == [err |-> "none", val |-> <<>>]

(***************************************************************************)
(* strings.Split(s, ","), strings.TrimSpace, strconv.Atoi                  *)
(***************************************************************************)
RECURSIVE Split(_)
Split(s) ==
    IF \A k \in 1..Len(s) : s[k] # ","
    THEN <<s>>
    ELSE LET k == CHOOSE j \in 1..Len(s) : s[j] = "," /\ \A h \in 1..(j-1) : s[h] # ","
         IN  <<SubSeq(s, 1, k-1)>> \o Split(SubSeq(s, k+1, Len(s)))

WhiteSpace == {" ", "\t", "\n", "\r"}

RECURSIVE TrimSpace(_)
TrimSpace(p) ==
    IF p = <<>> THEN p
    ELSE IF Head(p) \in WhiteSpace THEN TrimSpace(Tail(p))
    ELSE IF p[Len(p)] \in WhiteSpace THEN TrimSpace(SubSeq(p, 1, Len(p)-1))
    ELSE p

RECURSIVE DecimalValue(_)
DecimalValue(ds) ==
    IF ds = <<>> THEN 0
    ELSE 10 * DecimalValue(SubSeq(ds, 1, Len(ds)-1)) + DigitVal[ds[Len(ds)]]

\* strconv.Atoi on a short string: an optional sign, then one or more digits
Atoi(p) ==
    LET signed == p # <<>> /\ Head(p) \in {"-", "+"}
        ds     == IF signed THEN Tail(p) ELSE p
    IN  IF ds = <<>> \/ \E k \in 1..Len(ds) : ds[k] \notin Digits
        THEN [err |-> TRUE, n |-> 0]
        ELSE [err |-> FALSE,
              n   |-> IF signed /\ Head(p) = "-" THEN 0 - DecimalValue(ds)
                      ELSE DecimalValue(ds)]

(***************************************************************************)
(* dedupe and parseNumbers                                                 *)
(***************************************************************************)
RECURSIVE DedupeFrom(_, _, _)
DedupeFrom(in, seen, out) ==
    IF in = <<>> THEN out
    ELSE IF Head(in) \in seen THEN DedupeFrom(Tail(in), seen, out)
    ELSE DedupeFrom(Tail(in), seen \cup {Head(in)}, Append(out, Head(in)))

\* (a slip: nothing is dropped)
dedupeNothing(in) == in

dedupe(in) == DedupeFrom(in, {}, <<>>)

\* (a slip: the accumulated segments are kept in front of 1..max)
ZeroKeepsOut(out, maxIdx) == out \o [k \in 1..maxIdx |-> k]

\* the "0 means all" branch: out = out[:0], then 1..max appended
ZeroMeansAll(out, maxIdx) == [k \in 1..maxIdx |-> k]

\* (a slip: the upper limit is off by one)
OutOfRangeLax(n, maxIdx) == n < 1 \/ n > maxIdx + 1

OutOfRange(n, maxIdx) == n < 1 \/ n > maxIdx

RECURSIVE ParseParts(_, _, _)
ParseParts(parts, out, maxIdx) ==
    IF parts = <<>> THEN [err |-> "nil", val |-> dedupe(out)]
    ELSE LET p == TrimSpace(Head(parts)) IN
         IF p = <<>> THEN ParseParts(Tail(parts), out, maxIdx)
         ELSE IF p = <<"0">> THEN [err |-> "nil", val |-> ZeroMeansAll(out, maxIdx)]
         ELSE LET a == Atoi(p) IN
              IF a.err THEN [err |-> "invalid number", val |-> <<>>]
              ELSE IF OutOfRange(a.n, maxIdx)
                   THEN [err |-> "choice out of range", val |-> <<>>]
                   ELSE ParseParts(Tail(parts), Append(out, a.n), maxIdx)

parseNumbers(s, maxIdx) == ParseParts(Split(s), <<>>, maxIdx)

(***************************************************************************)
(* The preference file and its JSON text.                                  *)
(*                                                                         *)
(* file.kind is "absent" (no file at cfgPath), "regular" (a file this user *)
(* can read and write) or "blocked" (a path that can be neither read nor   *)
(* written: another user's file, a directory). file.data is the JSON text  *)
(* of the record's last_selections value; saved_at is written and never    *)
(* read, and is left out.                                                  *)
(***************************************************************************)
NoFile == [kind |-> "absent", data |-> <<>>]

BlockedFile == [kind |-> "blocked", data |-> <<>>]

RegularFile(text) == [kind |-> "regular", data |-> text]

NullText == <<"n", "u", "l", "l">>

\* the line break and indentation json.MarshalIndent puts before an element
ElemIndent == <<"\n", " ", " ", " ", " ">>

CloseIndent == <<"\n", " ", " ">>

JSONSpace == {" ", "\n", "\t", "\r"}

RECURSIVE DecimalText(_)
DecimalText(n) ==
    IF n < 10 THEN <<IF n = 0 THEN "0" ELSE DigitChar[n]>>
    ELSE Append(DecimalText(n \div 10), IF n % 10 = 0 THEN "0" ELSE DigitChar[n % 10])

\* an int as encoding/json writes it
IntText(n) == IF n < 0 THEN <<"-">> \o DecimalText(0 - n) ELSE DecimalText(n)

RECURSIVE ElemsText(_)
ElemsText(idxs) ==
    IF Len(idxs) = 1 THEN ElemIndent \o IntText(idxs[1])
    ELSE ElemIndent \o IntText(Head(idxs)) \o <<",">> \o ElemsText(Tail(idxs))

\* json.MarshalIndent of LastSelections: a nil slice is null
MarshalInts(idxs) ==
    IF idxs = <<>> THEN NullText
    ELSE <<"[">> \o ElemsText(idxs) \o CloseIndent \o <<"]">>

\* the text cut into tokens: "[", "]", ",", and the words between them
RECURSIVE Lex(_, _)
Lex(text, word) ==
    LET flush == IF word = <<>> THEN <<>> ELSE <<word>> IN
    IF text = <<>> THEN flush
    ELSE IF Head(text) \in JSONSpace THEN flush \o Lex(Tail(text), <<>>)
    ELSE IF Head(text) \in {"[", "]", ","} THEN flush \o <<<<Head(text)>>>> \o Lex(Tail(text), <<>>)
    ELSE Lex(Tail(text), Append(word, Head(text)))

\* a JSON number that fits an int: -? (0 | [1-9][0-9]*)
IsJSONInt(w) ==
    LET ds == IF w # <<>> /\ Head(w) = "-" THEN Tail(w) ELSE w IN
    /\ ds # <<>>
    /\ \A k \in 1..Len(ds) : ds[k] \in Digits
    /\ (Len(ds) > 1 => ds[1] # "0")

JSONIntValue(w) == IF Head(w) = "-" THEN 0 - DecimalValue(Tail(w)) ELSE DecimalValue(w)

\* json.Unmarshal of the last_selections value into []int
UnmarshalInts(text) ==
    LET toks  == Lex(text, <<>>)
        n     == Len(toks)
        inner == SubSeq(toks, 2, n - 1)
    IN  IF toks = <<NullText>> THEN [err |-> FALSE, val |-> <<>>]
        ELSE IF n < 2 \/ toks[1] # <<"[">> \/ toks[n] # <<"]">>
             THEN [err |-> TRUE, val |-> <<>>]
        ELSE IF inner = <<>> THEN [err |-> FALSE, val |-> <<>>]
        ELSE IF /\ Len(inner) % 2 = 1
                /\ \A k \in 1..Len(inner) :
                      IF k % 2 = 1 THEN IsJSONInt(inner[k]) ELSE inner[k] = <<",">>
             THEN [err |-> FALSE,
                   val |-> [k \in 1..((Len(inner) + 1) \div 2) |-> JSONIntValue(inner[2*k - 1])]]
             ELSE [err |-> TRUE, val |-> <<>>]

\* how os.WriteFile can end: written; not opened (the file is as it was);
\* opened and truncated, then the write fails (a cut-off text is no JSON either)
WriteOutcomes(f) ==
    IF f.kind = "blocked" THEN {"open failed"} ELSE {"ok", "open failed", "write failed"}

WriteFile(f, text, outcome) ==
    CASE outcome = "ok"           -> RegularFile(text)
      [] outcome = "open failed"  -> f
      [] outcome = "write failed" -> RegularFile(<<>>)

\* (a slip: the text is appended, the old record stays in front)
saveAppending(f, idxs, outcome) ==
    [file |-> WriteFile(f, f.data \o MarshalInts(idxs), outcome),
     err  |-> IF outcome = "ok" THEN "nil" ELSE "error"]

saveLastSelections(f, idxs, outcome) ==
    [file |-> WriteFile(f, MarshalInts(idxs), outcome),
     err  |-> IF outcome = "ok" THEN "nil" ELSE "error"]

loadLastSelections(f) ==
    IF f.kind # "regular" THEN [err |-> "read", val |-> <<>>]
    ELSE LET u == UnmarshalInts(f.data) IN
         IF u.err THEN [err |-> "json", val |-> <<>>]
         ELSE [err |-> "nil", val |-> u.val]

\* records a file can hold when a run starts that no run of this catalog wrote:
\* indices of a larger catalog, repeated indices, an empty list
ForeignRecords ==
    { <<>>, <<5>>, <<2, 2>>, <<3, 1>>, <<2, 7>>, <<1, 2, 3, 5>>, <<1, 1, 2, 2>>,
      <<1, 2, 3, 4, 4>> }

InitialFiles ==
    {NoFile, BlockedFile, RegularFile(<<>>), RegularFile(<<"[", "]">>)}
        \cup {RegularFile(MarshalInts(r)) : r \in ForeignRecords}

(***************************************************************************)
(* The store on its own: any lists, saved and loaded in any order.         *)
(***************************************************************************)
StoreValues == {-3, 2, 14}

IntLists == UNION {[1..k -> StoreValues] : k \in 0..MaxListLen}

StoreInit ==
    /\ numbers = <<>> /\ useLast = FALSE /\ noSave = FALSE
    /\ max = NumTasks /\ parsed = NoResult
    /\ file \in InitialFiles
    /\ loaded = NoResult /\ saved = <<>> /\ saveResult = "none" /\ saves = 0
    /\ promptDefault = [set |-> FALSE, val |-> <<>>]
    /\ picks = <<>> /\ pickerShown = FALSE
    /\ selectedIdxs = <<>> /\ pc = "idle" /\ i = 0 /\ attempted = <<>>
    /\ console = <<>>

StoreSave ==
    /\ saves < MaxSaves
    /\ \E idxs \in IntLists : \E outcome \in WriteOutcomes(file) :
          LET r == saveLastSelections(file, idxs, outcome) IN
          /\ file' = r.file
          /\ saveResult' = r.err
          /\ saved' = idxs
    /\ saves' = saves + 1
    /\ loaded' = NoResult
    /\ UNCHANGED <<numbers, useLast, noSave, max, parsed, promptDefault, picks,
                   pickerShown, selectedIdxs, pc, i, attempted, console>>

StoreLoad ==
    /\ loaded = NoResult
    /\ loaded' = loadLastSelections(file)
    /\ UNCHANGED <<numbers, useLast, noSave, max, parsed, file, saved, saveResult,
                   saves, promptDefault, picks, pickerShown, selectedIdxs, pc, i,
                   attempted, console>>

StoreNext == StoreSave \/ StoreLoad

StoreSpec == StoreInit /\ [][StoreNext]_vars

\* C8: after a save that succeeded, whatever was saved or failed to be saved
\* before it, loadLastSelections returns exactly the list of that save, same
\* elements in the same order.
C8_RoundTrip ==
    (loaded # NoResult /\ saveResult = "nil")
        => loaded = [err |-> "nil", val |-> saved]

\* the third save in a row, of a list with a negative and a two-digit element,
\* is what a load returns
C8_Witness ==
    /\ saves = 3
    /\ saveResult = "nil"
    /\ saved = <<-3, 14>>
    /\ loaded = [err |-> "nil", val |-> <<-3, 14>>]

(***************************************************************************)
(* main: one run after another over the same preference file.              *)
(***************************************************************************)
Line(kind, text, task) == [kind |-> kind, text |-> text, task |-> task]

\* the --numbers values the runs are started with ("" is: flag not given)
NumbersArgs ==
    { <<>>,
      <<"0">>,
      <<"2", ",", "4", ",", "2">>,
      <<"3", ",", " ", "1">>,
      <<"5">>,
      <<"1", ",", "x">>,
      <<"1", ",", "0">>,
      <<"0", ",", "5">>,
      <<" ", ",">> }

\* opts: "[Run ALL]", then the labels
Options == <<RunAllLabel>> \o [k \in 1..NumTasks |-> tasks[k].Label]

RECURSIVE SubSeqsOf(_)
SubSeqsOf(s) ==
    IF s = <<>> THEN {<<>>}
    ELSE LET r == SubSeqsOf(Tail(s)) IN r \cup {<<Head(s)>> \o x : x \in r}

\* what survey.AskOne can hand back under survey.Required: one option or more,
\* in the order of the list
PickerAnswers == SubSeqsOf(Options) \ {<<>>}

\* (a slip: --use-last is looked at first)
SelectionSourceLastFirst(nums, last) ==
    IF last THEN "last" ELSE IF nums # <<>> THEN "numbers" ELSE "picker"

\* the switch: first match wins
SelectionSource(nums, last) ==
    IF nums # <<>> THEN "numbers" ELSE IF last THEN "last" ELSE "picker"

RECURSIVE LabelsOfValid(_)
LabelsOfValid(last) ==
    IF last = <<>> THEN <<>>
    ELSE IF Head(last) >= 1 /\ Head(last) <= NumTasks
         THEN <<tasks[Head(last)].Label>> \o LabelsOfValid(Tail(last))
         ELSE LabelsOfValid(Tail(last))

\* prompt.Default after "try to preselect last"
PreselectDefault(l) ==
    IF l.err = "nil" /\ Len(l.val) > 0
    THEN [set |-> TRUE,
          val |-> IF Len(l.val) = NumTasks THEN <<RunAllLabel>> ELSE LabelsOfValid(l.val)]
    ELSE [set |-> FALSE, val |-> <<>>]

RECURSIVE LabelIndices(_)
LabelIndices(ps) ==
    IF ps = <<>> THEN <<>>
    ELSE LET hits == {k \in 1..NumTasks : tasks[k].Label = Head(ps)} IN
         IF hits = {} THEN LabelIndices(Tail(ps))
         ELSE <<CHOOSE k \in hits : \A h \in hits : k <= h>> \o LabelIndices(Tail(ps))

\* "translate picks"
TranslatePicks(ps) ==
    IF \E k \in 1..Len(ps) : ps[k] = RunAllLabel
    THEN [k \in 1..NumTasks |-> k]
    ELSE LabelIndices(ps)

\* (a slip: the check is gone)
NeverEmpty(sel) == FALSE

\* len(selectedIdxs) == 0
IsEmptySelection(sel) == Len(sel) = 0

\* (a slip: the flag is not looked at)
SaveAlways(flag) == TRUE

\* !*noSave
SaveRequested(flag) == ~flag

\* (a slip: the loop ends at the first command that fails)
StopAtFailure(pos, failed, n) == IF failed THEN n + 1 ELSE pos + 1

\* the executor's loop goes on to the next index, whatever cmd.Run returned
NextPosition(pos, failed, n) == pos + 1

Init ==
    /\ numbers = <<>> /\ useLast = FALSE /\ noSave = FALSE
    /\ max = NumTasks /\ parsed = NoResult
    /\ file \in InitialFiles
    /\ loaded = NoResult /\ saved = <<>> /\ saveResult = "none" /\ saves = 0
    /\ promptDefault = [set |-> FALSE, val |-> <<>>]
    /\ picks = <<>> /\ pickerShown = FALSE
    /\ selectedIdxs = <<>> /\ pc = "idle" /\ i = 0 /\ attempted = <<>>
    /\ console = <<>>

\* flag.Parse, filepath.Abs, the notice of the path and the artisan warning
Launch ==
    /\ pc = "idle"
    /\ numbers' \in NumbersArgs
    /\ useLast' \in BOOLEAN
    /\ noSave' \in BOOLEAN
    /\ \E artisan \in BOOLEAN :
          console' = <<Line("info", "Project path", 0)>> \o
                     (IF artisan THEN <<>> ELSE <<Line("warn", "artisan not found", 0)>>)
    /\ pc' = "select"
    /\ UNCHANGED <<max, parsed, file, loaded, saved, saveResult, saves, promptDefault,
                   picks, pickerShown, selectedIdxs, i, attempted>>

\* filepath.Abs fails
LaunchFails ==
    /\ pc = "idle"
    /\ numbers' \in NumbersArgs
    /\ useLast' \in BOOLEAN
    /\ noSave' \in BOOLEAN
    /\ console' = <<Line("err", "unable to resolve path", 0)>>
    /\ pc' = "exit1"
    /\ UNCHANGED <<max, parsed, file, loaded, saved, saveResult, saves, promptDefault,
                   picks, pickerShown, selectedIdxs, i, attempted>>

\* a selection source has set selectedIdxs to sel: the check that follows the switch
Resolved(sel) ==
    /\ selectedIdxs' = sel
    /\ IF IsEmptySelection(sel)
       THEN /\ pc' = "exit1"
            /\ console' = Append(console, Line("err", "no commands selected", 0))
       ELSE /\ pc' = "save"
            /\ console' = console

Fatal(text) ==
    /\ pc' = "exit1"
    /\ console' = Append(console, Line("err", text, 0))
    /\ selectedIdxs' = selectedIdxs

\* case *numbers != ""
SelectNumbers ==
    /\ pc = "select"
    /\ SelectionSource(numbers, useLast) = "numbers"
    /\ LET r == parseNumbers(numbers, NumTasks) IN
       /\ parsed' = r
       /\ IF r.err # "nil" THEN Fatal(r.err) ELSE Resolved(r.val)
    /\ UNCHANGED <<numbers, useLast, noSave, max, file, loaded, saved, saveResult,
                   saves, promptDefault, picks, pickerShown, i, attempted>>

\* case *useLast
SelectLast ==
    /\ pc = "select"
    /\ SelectionSource(numbers, useLast) = "last"
    /\ LET l == loadLastSelections(file) IN
       /\ loaded' = l
       /\ IF l.err # "nil" THEN Fatal("could not load last selections")
          ELSE IF Len(l.val) = 0 THEN Fatal("no last selections saved")
          ELSE Resolved(l.val)
    /\ UNCHANGED <<numbers, useLast, noSave, max, parsed, file, saved, saveResult,
                   saves, promptDefault, picks, pickerShown, i, attempted>>

\* default: the picker, answered
SelectInteractive ==
    /\ pc = "select"
    /\ SelectionSource(numbers, useLast) = "picker"
    /\ loaded' = loadLastSelections(file)
    /\ promptDefault' = PreselectDefault(loaded')
    /\ pickerShown' = TRUE
    /\ picks' \in PickerAnswers
    /\ Resolved(TranslatePicks(picks'))
    /\ UNCHANGED <<numbers, useLast, noSave, max, parsed, file, saved, saveResult,
                   saves, i, attempted>>

\* default: the picker, and survey.AskOne returns an error (an interrupt, no terminal)
PickerFails ==
    /\ pc = "select"
    /\ SelectionSource(numbers, useLast) = "picker"
    /\ loaded' = loadLastSelections(file)
    /\ promptDefault' = PreselectDefault(loaded')
    /\ pickerShown' = TRUE
    /\ Fatal("interrupt")
    /\ UNCHANGED <<numbers, useLast, noSave, max, parsed, file, saved, saveResult,
                   saves, picks, i, attempted>>

\* "Save selection unless disabled": the error is dropped; then the executor's notice
SaveSelection ==
    /\ pc = "save"
    /\ SaveRequested(noSave)
    /\ \E outcome \in WriteOutcomes(file) :
          LET r == saveLastSelections(file, selectedIdxs, outcome) IN
          /\ file' = r.file
          /\ saveResult' = r.err
    /\ saved' = selectedIdxs
    /\ saves' = saves + 1
    /\ console' = Append(console, Line("ok", "Executing selected commands...", 0))
    /\ pc' = "exec"
    /\ i' = 1
    /\ UNCHANGED <<numbers, useLast, noSave, max, parsed, loaded, promptDefault, picks,
                   pickerShown, selectedIdxs, attempted>>

SkipSave ==
    /\ pc = "save"
    /\ ~SaveRequested(noSave)
    /\ console' = Append(console, Line("ok", "Executing selected commands...", 0))
    /\ pc' = "exec"
    /\ i' = 1
    /\ UNCHANGED <<numbers, useLast, noSave, max, parsed, file, loaded, saved,
                   saveResult, saves, promptDefault, picks, pickerShown, selectedIdxs,
                   attempted>>

\* one turn of the loop: the command is started, waited for, and reported
RunTask ==
    /\ pc = "exec"
    /\ i <= Len(selectedIdxs)
    /\ ~(selectedIdxs[i] < 1 \/ selectedIdxs[i] > NumTasks)
    /\ attempted' = Append(attempted, selectedIdxs[i])
    /\ \E failed \in BOOLEAN :
          /\ console' = console \o
                <<Line("step", "Running", selectedIdxs[i]),
                  IF failed THEN Line("err", "Error running", selectedIdxs[i])
                  ELSE Line("ok", "Done", selectedIdxs[i])>>
          /\ i' = NextPosition(i, failed, Len(selectedIdxs))
    /\ UNCHANGED <<numbers, useLast, noSave, max, parsed, file, loaded, saved,
                   saveResult, saves, promptDefault, picks, pickerShown, selectedIdxs, pc>>

\* one turn of the loop: the safe-guard
SkipInvalid ==
    /\ pc = "exec"
    /\ i <= Len(selectedIdxs)
    /\ (selectedIdxs[i] < 1 \/ selectedIdxs[i] > NumTasks)
    /\ console' = Append(console, Line("warn", "Skipping invalid index", selectedIdxs[i]))
    /\ i' = i + 1
    /\ UNCHANGED <<numbers, useLast, noSave, max, parsed, file, loaded, saved,
                   saveResult, saves, promptDefault, picks, pickerShown, selectedIdxs,
                   pc, attempted>>

\* the loop is over: the completion notice, and main returns
Finish ==
    /\ pc = "exec"
    /\ i > Len(selectedIdxs)
    /\ console' = Append(console, Line("ok", "All selected commands executed.", 0))
    /\ pc' = "exit0"
    /\ UNCHANGED <<numbers, useLast, noSave, max, parsed, file, loaded, saved,
                   saveResult, saves, promptDefault, picks, pickerShown, selectedIdxs,
                   i, attempted>>

\* the process is gone; the file stays for the next run
Terminate ==
    /\ pc \in {"exit0", "exit1"}
    /\ numbers' = <<>> /\ useLast' = FALSE /\ noSave' = FALSE
    /\ parsed' = NoResult /\ loaded' = NoResult
    /\ saved' = <<>> /\ saveResult' = "none" /\ saves' = 0
    /\ promptDefault' = [set |-> FALSE, val |-> <<>>]
    /\ picks' = <<>> /\ pickerShown' = FALSE
    /\ selectedIdxs' = <<>> /\ pc' = "idle" /\ i' = 0 /\ attempted' = <<>>
    /\ console' = <<>>
    /\ UNCHANGED <<max, file>>

Next ==
    \/ Launch \/ LaunchFails
    \/ SelectNumbers \/ SelectLast \/ SelectInteractive \/ PickerFails
    \/ SaveSelection \/ SkipSave
    \/ RunTask \/ SkipInvalid \/ Finish
    \/ Terminate

Spec == Init /\ [][Next]_vars

\* main is one thread that keeps going: the loop takes its next turn (cmd.Run
\* returns), and the notice after the loop is printed
LiveSpec == Spec /\ WF_vars(RunTask \/ SkipInvalid \/ Finish)

(***************************************************************************)
(* The parser on its own: any string, any catalog size.                    *)
(***************************************************************************)
ParseInit ==
    /\ useLast = FALSE /\ noSave = FALSE
    /\ file = NoFile
    /\ loaded = NoResult /\ saved = <<>> /\ saveResult = "none" /\ saves = 0
    /\ promptDefault = [set |-> FALSE, val |-> <<>>]
    /\ picks = <<>> /\ pickerShown = FALSE
    /\ selectedIdxs = <<>> /\ pc = "idle" /\ i = 0 /\ attempted = <<>>
    /\ console = <<>>
    /\ numbers \in StringsUpTo(MaxLen)
    /\ max \in 1..NumTasks
    /\ parsed = NoResult

ParseCall ==
    /\ parsed = NoResult
    /\ parsed' = parseNumbers(numbers, max)
    /\ UNCHANGED <<numbers, useLast, noSave, max, file, loaded, saved, saveResult, saves,
                   promptDefault, picks, pickerShown, selectedIdxs, pc, i,
                   attempted, console>>

ParseNext == ParseCall

ParseSpec == ParseInit /\ [][ParseNext]_vars

(***************************************************************************)
(* What the claims about the parser speak of.                              *)
(***************************************************************************)
\* the comma-separated segments of s, trimmed
Segments(s) == [k \in 1..Len(Split(s)) |-> TrimSpace(Split(s)[k])]

ZeroToken == <<"0">>

ZeroPositions(s) == {k \in 1..Len(Segments(s)) : Segments(s)[k] = ZeroToken}

\* a non-empty segment, not the token "0", that is non-numeric or out of [1, N]
IsBadSegment(p, N) ==
    /\ p # <<>>
    /\ p # ZeroToken
    /\ (Atoi(p).err \/ Atoi(p).n \notin 1..N)

BadPositions(s, N) == {k \in 1..Len(Segments(s)) : IsBadSegment(Segments(s)[k], N)}

FullSelection(N) == [k \in 1..N |-> k]

\* the values of the non-empty segments of s, in order (all of them numeric)
RECURSIVE ValuesOf(_)
ValuesOf(segs) ==
    IF segs = <<>> THEN <<>>
    ELSE IF Head(segs) = <<>> THEN ValuesOf(Tail(segs))
    ELSE <<Atoi(Head(segs)).n>> \o ValuesOf(Tail(segs))

FirstAt(vals, v) == CHOOSE k \in 1..Len(vals) : vals[k] = v /\ \A j \in 1..(k-1) : vals[j] # v

\* r holds the distinct elements of vals, each once, by first occurrence
IsFirstOccurrenceOrder(r, vals) ==
    /\ {r[a] : a \in 1..Len(r)} = {vals[k] : k \in 1..Len(vals)}
    /\ \A a, b \in 1..Len(r) : a # b => r[a] # r[b]
    /\ \A a, b \in 1..Len(r) : a < b => FirstAt(vals, r[a]) < FirstAt(vals, r[b])

ParseDone == parsed # NoResult

\* C1, as stated: whenever some segment of the input is the token "0", at any
\* position, parseNumbers succeeds with exactly [1..N], whatever the other
\* tokens are.
C1_ZeroAnywhere ==
    (ParseDone /\ ZeroPositions(numbers) # {})
        => parsed = [err |-> "nil", val |-> FullSelection(max)]

\* C1, amended: whenever some segment is the token "0" and no non-numeric or
\* out-of-range segment stands before the first "0", parseNumbers succeeds with
\* exactly [1..N], whatever tokens were accumulated before it or follow it.
C1_ZeroOverrides ==
    (/\ ParseDone
     /\ \E z \in ZeroPositions(numbers) : \A b \in BadPositions(numbers, max) : z < b)
        => parsed = [err |-> "nil", val |-> FullSelection(max)]

\* a "0" with a valid index accumulated before it and a bad token after it
C1_Witness ==
    /\ ParseDone
    /\ \E z \in ZeroPositions(numbers) :
          /\ \E k \in 1..(z-1) : Segments(numbers)[k] # <<>>
          /\ \E b \in BadPositions(numbers, max) : z < b
          /\ \A b \in BadPositions(numbers, max) : z < b
    /\ parsed.val = FullSelection(max)

\* C2, as stated: whenever the input has a non-empty segment that is non-numeric
\* or numeric outside [1, N], parseNumbers returns an error and an empty list.
C2_BadTokenFails ==
    (ParseDone /\ BadPositions(numbers, max) # {})
        => (parsed.err # "nil" /\ parsed.val = <<>>)

\* C2, amended: whenever the input has a non-empty segment that is non-numeric
\* or numeric outside [1, N] and no "0" token stands before it, parseNumbers
\* returns an error and an empty list.
C2_BadTokenBeforeZeroFails ==
    (/\ ParseDone
     /\ \E b \in BadPositions(numbers, max) : \A z \in ZeroPositions(numbers) : b < z)
        => (parsed.err # "nil" /\ parsed.val = <<>>)

\* a bad token behind valid ones and in front of a "0": nothing partial comes back
C2_Witness ==
    /\ ParseDone
    /\ \E b \in BadPositions(numbers, max) :
          /\ \A z \in ZeroPositions(numbers) : b < z
          /\ \E k \in 1..(b-1) : Segments(numbers)[k] # <<>>
    /\ ZeroPositions(numbers) # {}
    /\ parsed.err = "choice out of range"

\* C5: for an input with no "0" token whose non-empty segments are all integers
\* in [1, N], parseNumbers succeeds with the distinct integers of the input,
\* each once, in the order of their first occurrence.
C5_DedupFirstOccurrence ==
    (/\ ParseDone
     /\ ZeroPositions(numbers) = {}
     /\ BadPositions(numbers, max) = {})
        => /\ parsed.err = "nil"
           /\ IsFirstOccurrenceOrder(parsed.val, ValuesOf(Segments(numbers)))

\* a repeated index behind a smaller one: "2,1,2" gives [2, 1]
C5_Witness ==
    /\ ParseDone
    /\ ZeroPositions(numbers) = {}
    /\ BadPositions(numbers, max) = {}
    /\ Len(ValuesOf(Segments(numbers))) = 3
    /\ parsed.val = <<2, 1>>

(***************************************************************************)
(* What the claims about a run speak of.                                   *)
(***************************************************************************)
InRange(x) == x \in 1..NumTasks

InRangeOnly(sel) == SelectSeq(sel, InRange)

AllInRange(sel) == \A k \in 1..Len(sel) : InRange(sel[k])

IsTaskLine(l) == l.text \in {"Running", "Done", "Error running"}

\* every launch is announced and then reported, once, in the order of the launches
EachAttemptReported ==
    LET ls == SelectSeq(console, IsTaskLine) IN
    /\ Len(ls) = 2 * Len(attempted)
    /\ \A k \in 1..Len(attempted) :
          /\ ls[2*k - 1] = Line("step", "Running", attempted[k])
          /\ ls[2*k] \in {Line("ok", "Done", attempted[k]),
                         Line("err", "Error running", attempted[k])}

ExecutorStarted ==
    \E k \in 1..Len(console) : console[k].text = "Executing selected commands..."

\* a line about the run itself (not about one task) that reports trouble, other
\* than the artisan warning every run can print
TroubleNotice(l) ==
    /\ l.kind \in {"err", "warn"}
    /\ l.task = 0
    /\ l.text # "artisan not found"

\* C3, as stated: every index of the selection a run resolved, and every index
\* handed to the preference record, lies in [1, N].
C3_IndicesInRange ==
    /\ AllInRange(selectedIdxs)
    /\ (saves > 0 => AllInRange(saved))

\* the executor at every point of a run: the launches so far are the in-range
\* entries of the selection before position i, in order; each is reported once;
\* status 0 comes with the completion notice, status 1 only before the executor
ExecutorInvariant ==
    /\ pc = "exec" =>
          /\ i \in 1..(Len(selectedIdxs) + 1)
          /\ attempted = InRangeOnly(SubSeq(selectedIdxs, 1, i - 1))
          /\ EachAttemptReported
          /\ ENABLED (RunTask \/ SkipInvalid \/ Finish)
    /\ pc = "exit0" =>
          /\ attempted = InRangeOnly(selectedIdxs)
          /\ EachAttemptReported
          /\ console[Len(console)] = Line("ok", "All selected commands executed.", 0)
    /\ pc = "exit1" => ~ExecutorStarted

C6_FatalRunsLaunchNothing ==
    /\ pc \in {"save", "exec", "exit0"} =>
          /\ selectedIdxs # <<>>
          /\ (numbers # <<>> =>
                ~\E b \in BadPositions(numbers, NumTasks) :
                     \A z \in ZeroPositions(numbers) : b < z)
          /\ (numbers = <<>> /\ useLast => (loaded.err = "nil" /\ loaded.val # <<>>))
          /\ (numbers = <<>> /\ ~useLast => picks # <<>>)
    /\ pc = "exit1" =>
          /\ attempted = <<>>
          /\ ~ExecutorStarted
          /\ \A k \in 1..Len(console) : ~IsTaskLine(console[k])

\* --use-last with no file: failure status, nothing launched
C6_Witness ==
    /\ pc = "exit1"
    /\ numbers = <<>> /\ useLast
    /\ file = NoFile
    /\ loaded.err = "read"
    /\ console[Len(console)] = Line("err", "could not load last selections", 0)

\* C7: when --numbers is non-empty the selection is the parser's result, the
\* picker is not shown and the record is not read, with or without --use-last;
\* when --numbers is empty and --use-last is set the selection is the loaded
\* list and the picker is not shown; otherwise the picker is shown and the
\* selection is what its answer translates to.
C7_SourcePriority ==
    /\ numbers # <<>> =>
          /\ ~pickerShown
          /\ loaded = NoResult
          /\ (pc \in {"save", "exec", "exit0"} =>
                /\ parsed = parseNumbers(numbers, NumTasks)
                /\ selectedIdxs = parsed.val)
    /\ (numbers = <<>> /\ useLast) =>
          /\ ~pickerShown
          /\ parsed = NoResult
          /\ (pc \in {"save", "exec", "exit0"} =>
                /\ loaded.err = "nil"
                /\ selectedIdxs = loaded.val)
    /\ (numbers = <<>> /\ ~useLast /\ pc \in {"save", "exec", "exit0"}) =>
          /\ pickerShown
          /\ parsed = NoResult
          /\ selectedIdxs = TranslatePicks(picks)

\* --numbers 2,4,2 together with --use-last over a saved record: [2, 4], and
\* the record was not read
C7_Witness ==
    /\ pc = "exec"
    /\ numbers = <<"2", ",", "4", ",", "2">>
    /\ useLast
    /\ noSave
    /\ file = RegularFile(MarshalInts(<<3, 1>>))
    /\ loaded = NoResult
    /\ selectedIdxs = <<2, 4>>

Covers(last) == \A x \in 1..NumTasks : \E k \in 1..Len(last) : last[k] = x

\* C9, as stated: for a prior record that loads and is not empty, the picker's
\* default is exactly {"[Run ALL]"} if and only if the prior selection covers
\* the whole catalog; otherwise it is exactly the labels of the prior indices
\* in [1, N], without "[Run ALL]".
C9_PreselectCoversCatalog ==
    (pickerShown /\ loaded.err = "nil" /\ loaded.val # <<>>) =>
        /\ promptDefault.set
        /\ IF Covers(loaded.val)
           THEN promptDefault.val = <<RunAllLabel>>
           ELSE {promptDefault.val[k] : k \in 1..Len(promptDefault.val)}
                    = {tasks[x].Label : x \in {y \in 1..NumTasks :
                                                \E k \in 1..Len(loaded.val) : loaded.val[k] = y}}

\* C10, as stated: a run without --no-save whose write of the record failed
\* shows it: it does not end with status 0 without a line about the trouble.
C10_SaveFailureSurfaced ==
    (saveResult = "error" /\ pc = "exit0")
        => \E k \in 1..Len(console) : TroubleNotice(console[k])

\* C10, amended: with --no-save no write is attempted; without it the record
\* is written once, after the selection is resolved; saveLastSelections
\* returns nil only when the file then holds the selection, and an error
\* otherwise, but main drops that error: the run goes on to the executor and to
\* status 0 and prints no line about it.
C10_SaveErrorDropped ==
    /\ noSave => (saves = 0 /\ saveResult = "none")
    /\ (~noSave /\ pc \in {"exec", "exit0"}) => (saves = 1 /\ saveResult \in {"nil", "error"})
    /\ pc \in {"idle", "select", "save", "exit1"} => saves = 0
    /\ saveResult = "nil" => file = RegularFile(MarshalInts(selectedIdxs))
    /\ saveResult = "error" =>
          /\ pc \in {"exec", "exit0"}
          /\ ExecutorStarted
          /\ \A k \in 1..Len(console) : ~TroubleNotice(console[k])

\* a run whose write was cut off after the file was truncated, which went on to
\* launch its commands and ended with status 0
C10_Witness ==
    /\ pc = "exit0"
    /\ ~noSave
    /\ saveResult = "error"
    /\ file = RegularFile(<<>>)
    /\ Len(attempted) >= 2

====
